---- MODULE Spec2Model ----
(***************************************************************************)
(* Model of versioned_extended: a NEAR contract whose root state           *)
(* (VersionedContract) and whose per-key records (VersionedBalances) are   *)
(* enums over schema versions, upgraded lazily.                            *)
(*                                                                         *)
(* An enum value is the pair <<variant, payload>>; a map is a function     *)
(* whose DOMAIN is the set of keys present.  A call's outcome is the pair  *)
(* <<state after the call, result>>; a panic aborts the call and the host  *)
(* commits nothing, so the state after a panic is the state before it.     *)
(***************************************************************************)
EXTENDS Integers, FiniteSets, Sequences, TLC

VARIABLES
    contract,   \* the persisted VersionedContract (self of every method)
    op,         \* the last call: <<method, arguments...>>
    ret,        \* its result: <<"ok", value>> or <<"panic", message>>
    expected,   \* history: per account, initial balance plus every amount a completed deposit attached
    ndeposits,  \* history: number of completed deposits
    upgraded,   \* history: keys whose record a get_balance ran upgrade() on since it was last inserted
    registered, \* history: keys under which an add_hash has inserted a record
    versioned   \* a VersionedBalances value handed to the methods of balances.rs

vars == <<contract, op, ret, expected, ndeposits, upgraded, registered, versioned>>

----------------------------------------------------------------------------
(* Bounds of the model. *)

\* Balance is u128: the model keeps the wrap-around at a small largest value.
MaxBalance == 2
\* nonce is u64: likewise.
MaxNonce == 2
\* largest field value of a record that is in storage initially
MaxField == 1
\* largest deposit attached to a call
MaxAmount == 1
\* largest field value of the values handed to balances.rs directly
MaxPureField == 3

Accounts == {"alice", "bob"}
Keys == {"k1", "k2"}
Amounts == 0 .. MaxAmount

----------------------------------------------------------------------------
(* Maps: HashMap / UnorderedMap as functions on the keys present. *)

EmptyMap == [x \in {} |-> 0]

\* map.insert(k, v)
Insert(m, k, v) == [x \in DOMAIN m \cup {k} |-> IF x = k THEN v ELSE m[x]]

\* map.get(k): Option
Get(m, k) == IF k \in DOMAIN m THEN <<"Some", m[k]>> ELSE <<"None">>

\* *map.entry(k).or_default(): the value under k, 0 being Balance's default
OrDefault(m, k) == IF k \in DOMAIN m THEN m[k] ELSE 0

\* every map from some subset of K to V
Maps(K, V) == UNION {[D -> V] : D \in SUBSET K}

Ok(v) == <<"ok", v>>
Panic(msg) == <<"panic", msg>>
Unit == <<>>

----------------------------------------------------------------------------
(* balances.rs *)

Balances(d, t) == [deposited |-> d, total |-> t]

BalancesV1(d, t, e) == [deposited |-> d, total |-> t, earned |-> e]

\* the VersionedBalances values with fields up to n
VersionedBalances(n) ==
    {<<"V0", b>> : b \in [deposited : 0 .. n, total : 0 .. n]}
        \cup {<<"V1", b>> : b \in [deposited : 0 .. n, total : 0 .. n, earned : 0 .. n]}

\* upgrade rebuilding a V1 value as it builds a V0 one, earned set to 0
upgrade_resetting_earned(self) ==
    <<"V1", BalancesV1(self[2].deposited, self[2].total, 0)>>

\* upgrade copying deposited and total into each other's place
upgrade_swapped_fields(self) ==
    CASE self[1] = "V0" ->
            <<"V1", BalancesV1(self[2].total, self[2].deposited, 0)>>
      [] self[1] = "V1" -> <<"V1", self[2]>>

upgrade(self) ==
    CASE self[1] = "V0" ->
            <<"V1", BalancesV1(self[2].deposited, self[2].total, 0)>>
      [] self[1] = "V1" -> <<"V1", self[2]>>

need_upgrade(self) ==
    CASE self[1] = "V0" -> TRUE
      [] self[1] = "V1" -> FALSE

\* VersionedBalances::get_balance(self) -> BalancesV1
VersionedBalances_get_balance(self) ==
    CASE self[1] = "V1" -> Ok(self[2])
      [] OTHER -> Panic("not implemented")

----------------------------------------------------------------------------
(* contracts.rs *)

ContractV0(f, h) == [funders |-> f, hashes |-> h]

Contract(f, n, h) == [funders |-> f, nonce |-> n, hashes |-> h]

ContractDefault == Contract(EmptyMap, 0, EmptyMap)

----------------------------------------------------------------------------
(* lib.rs *)

\* Default for VersionedContract
VersionedContractDefault == <<"V1", ContractDefault>>

\* contract_mut rebuilding the root around a fresh, empty hashes map
contract_mut_fresh_hashes(self) ==
    CASE self[1] = "V1" -> self
      [] self[1] = "V0" ->
            <<"V1", Contract(self[2].funders, 0, EmptyMap)>>

\* contract_mut without the early return for V1: the root is rebuilt every time
contract_mut_always_rebuilding(self) ==
    <<"V1", Contract(self[2].funders, 0, self[2].hashes)>>

\* the root after contract_mut: V1 is returned as it is, V0 is rebuilt as V1
contract_mut(self) ==
    CASE self[1] = "V1" -> self
      [] self[1] = "V0" ->
            <<"V1", Contract(self[2].funders, 0, self[2].hashes)>>

funders(self) == self[2].funders

hashes(self) == self[2].hashes

\* hashes_mut putting a map that holds the one new entry in place of hashes
hashes_mut_replacing_map(self, k, v) ==
    CASE self[1] = "V0" ->
            <<"V0", ContractV0(self[2].funders, Insert(EmptyMap, k, v))>>
      [] self[1] = "V1" ->
            <<"V1", Contract(self[2].funders, self[2].nonce, Insert(EmptyMap, k, v))>>

\* the root after hashes_mut().insert(k, v): same variant, that one entry set
hashes_mut(self, k, v) ==
    CASE self[1] = "V0" ->
            <<"V0", ContractV0(self[2].funders, Insert(self[2].hashes, k, v))>>
      [] self[1] = "V1" ->
            <<"V1", Contract(self[2].funders, self[2].nonce, Insert(self[2].hashes, k, v))>>

\* deposit without `contract.nonce += 1`
deposit_without_nonce(self, account_id, attached) ==
    LET c == contract_mut(self)[2]
        sum == OrDefault(c.funders, account_id) + attached
        stored(b) == <<"V1", Contract(Insert(c.funders, account_id, b), c.nonce, c.hashes)>>
    IN  IF sum <= MaxBalance
        THEN {<<stored(sum), Ok(Unit)>>}
        ELSE {<<self, Panic("attempt to add with overflow")>>,
              <<stored(sum % (MaxBalance + 1)), Ok(Unit)>>}

\* deposit: the outcomes <<root, result>>.  `+=` on u128 / u64 either panics on
\* overflow (overflow checks on) or wraps (off): both builds are outcomes.
deposit(self, account_id, attached) ==
    LET c == contract_mut(self)[2]
        sum == OrDefault(c.funders, account_id) + attached
        n == c.nonce + 1
        stored(b, m) == <<"V1", Contract(Insert(c.funders, account_id, b), m, c.hashes)>>
    IN  IF sum <= MaxBalance /\ n <= MaxNonce
        THEN {<<stored(sum, n), Ok(Unit)>>}
        ELSE {<<self, Panic("attempt to add with overflow")>>,
              <<stored(sum % (MaxBalance + 1), n % (MaxNonce + 1)), Ok(Unit)>>}

get_nonce(self) ==
    CASE self[1] = "V0" -> 0
      [] self[1] = "V1" -> self[2].nonce

get_deposit(self, account_id) == Get(funders(self), account_id)

\* add_hash inserting whatever the variant of the root
add_hash_any_variant(self, k) ==
    <<hashes_mut(self, k, <<"V0", Balances(1, 1)>>), Ok(Unit)>>

\* add_hash: the outcome <<root, result>>
add_hash(self, k) ==
    CASE self[1] = "V0" -> <<hashes_mut(self, k, <<"V0", Balances(1, 1)>>), Ok(Unit)>>
      [] OTHER -> <<self, Panic("not implemented")>>

\* get_balance projecting the stored value without upgrading it first
get_balance_without_upgrade(self, k) ==
    LET versioned_option == Get(hashes(self), k)
    IN  IF versioned_option[1] = "None"
        THEN <<self, Panic("ERR_INVALID_KEY")>>
        ELSE <<self, VersionedBalances_get_balance(versioned_option[2])>>

\* get_balance reaching hashes through contract_mut, which upgrades the root
get_balance_through_contract_mut(self, k) ==
    LET versioned_option == Get(hashes(self), k)
    IN  IF versioned_option[1] = "None"
        THEN <<self, Panic("ERR_INVALID_KEY")>>
        ELSE <<contract_mut(self), VersionedBalances_get_balance(upgrade(versioned_option[2]))>>

\* get_balance(&self, k): the outcome <<root, result>>; the upgraded value is a
\* local of the call and is not stored
get_balance(self, k) ==
    LET versioned_option == Get(hashes(self), k)
    IN  IF versioned_option[1] = "None"
        THEN <<self, Panic("ERR_INVALID_KEY")>>
        ELSE LET v == IF need_upgrade(versioned_option[2])
                      THEN upgrade(versioned_option[2])
                      ELSE versioned_option[2]
             IN  <<self, VersionedBalances_get_balance(v)>>

----------------------------------------------------------------------------
(* The state machine: the contract as it is persisted between calls. *)

\* the records of a root in storage initially: none, or one record of either
\* variant (under "k1": the keys are interchangeable)
LegacyHashes ==
    {EmptyMap} \cup {Insert(EmptyMap, "k1", v) : v \in VersionedBalances(MaxField)}

\* a root loaded from storage that was written under the V0 schema
LegacyRoots ==
    {<<"V0", ContractV0(f, h)>> :
        f \in Maps(Accounts, 0 .. MaxBalance), h \in LegacyHashes}

NoValue == <<"V1", BalancesV1(0, 0, 0)>>

Init ==
    /\ contract \in {VersionedContractDefault} \cup LegacyRoots
    /\ op = <<"init">>
    /\ ret = Ok(Unit)
    /\ expected = funders(contract)
    /\ ndeposits = 0
    /\ upgraded = {}
    /\ registered = {}
    /\ versioned = NoValue

CallDeposit(account_id, attached) ==
    \E out \in deposit(contract, account_id, attached) :
        /\ contract' = out[1]
        /\ op' = <<"deposit", account_id, attached>>
        /\ ret' = out[2]
        /\ IF out[2][1] = "ok"
           THEN /\ expected' = Insert(expected, account_id,
                                      OrDefault(expected, account_id) + attached)
                /\ ndeposits' = ndeposits + 1
                /\ expected'[account_id] <= MaxBalance + MaxAmount
                /\ ndeposits' <= MaxNonce + 1
           ELSE UNCHANGED <<expected, ndeposits>>
        /\ UNCHANGED <<upgraded, registered, versioned>>

CallGetNonce ==
    /\ op' = <<"get_nonce">>
    /\ ret' = Ok(get_nonce(contract))
    /\ UNCHANGED <<contract, expected, ndeposits, upgraded, registered, versioned>>

CallGetDeposit(account_id) ==
    /\ op' = <<"get_deposit", account_id>>
    /\ ret' = Ok(get_deposit(contract, account_id))
    /\ UNCHANGED <<contract, expected, ndeposits, upgraded, registered, versioned>>

CallAddHash(k) ==
    LET out == add_hash(contract, k)
    IN  /\ contract' = out[1]
        /\ op' = <<"add_hash", k>>
        /\ ret' = out[2]
        /\ upgraded' = IF out[2][1] = "ok" THEN upgraded \ {k} ELSE upgraded
        /\ registered' = IF out[2][1] = "ok" THEN registered \cup {k} ELSE registered
        /\ UNCHANGED <<expected, ndeposits, versioned>>

CallGetBalance(k) ==
    LET out == get_balance(contract, k)
    IN  /\ contract' = out[1]
        /\ op' = <<"get_balance", k>>
        /\ ret' = out[2]
        /\ upgraded' = IF k \in DOMAIN hashes(contract) /\ need_upgrade(hashes(contract)[k])
                       THEN upgraded \cup {k}
                       ELSE upgraded
        /\ UNCHANGED <<expected, ndeposits, registered, versioned>>

Next ==
    \/ \E a \in Accounts, d \in Amounts : CallDeposit(a, d)
    \/ CallGetNonce
    \/ \E a \in Accounts : CallGetDeposit(a)
    \/ \E k \in Keys : CallAddHash(k)
    \/ \E k \in Keys : CallGetBalance(k)

Spec == Init /\ [][Next]_vars

\* the contract as `VersionedContract::default()` deploys it
InitDefault ==
    /\ contract = VersionedContractDefault
    /\ op = <<"init">>
    /\ ret = Ok(Unit)
    /\ expected = funders(contract)
    /\ ndeposits = 0
    /\ upgraded = {}
    /\ registered = {}
    /\ versioned = NoValue

SpecDefault == InitDefault /\ [][Next]_vars

----------------------------------------------------------------------------
(* balances.rs on its own: a value of either variant, and its three methods *)
(* applied to it.                                                           *)

InitPure ==
    /\ versioned \in VersionedBalances(MaxPureField)
    /\ contract = VersionedContractDefault
    /\ op = <<"init">>
    /\ ret = Ok(Unit)
    /\ expected = EmptyMap
    /\ ndeposits = 0
    /\ upgraded = {}
    /\ registered = {}

\* let versioned = versioned.upgrade()
ApplyUpgrade ==
    /\ versioned' = upgrade(versioned)
    /\ op' = <<"upgrade", versioned>>
    /\ ret' = Ok(versioned')
    /\ UNCHANGED <<contract, expected, ndeposits, upgraded, registered>>

ApplyNeedUpgrade ==
    /\ op' = <<"need_upgrade", versioned>>
    /\ ret' = Ok(need_upgrade(versioned))
    /\ UNCHANGED <<versioned, contract, expected, ndeposits, upgraded, registered>>

ApplyGetBalance ==
    /\ op' = <<"VersionedBalances::get_balance", versioned>>
    /\ ret' = VersionedBalances_get_balance(versioned)
    /\ UNCHANGED <<versioned, contract, expected, ndeposits, upgraded, registered>>

NextPure ==
    \/ ApplyUpgrade
    \/ ApplyNeedUpgrade
    \/ ApplyGetBalance

SpecPure == InitPure /\ [][NextPure]_vars

----------------------------------------------------------------------------
(* Properties *)

\* the last call was `method` and it completed
Completed(method) == op[1] = method /\ ret[1] = "ok"

\* the record stored under k is of variant v
StoredAs(self, k, v) == k \in DOMAIN hashes(self) /\ hashes(self)[k][1] = v

\* C1: write-back on upgrade: when get_balance(k) finds the record under k stored
\* as V0, then after the call the record stored under k is V1 with the same
\* deposited and total and earned = 0.
C1_WriteBackOnUpgrade ==
    [][\A k \in Keys :
          (op' = <<"get_balance", k>> /\ StoredAs(contract, k, "V0"))
              => /\ k \in DOMAIN hashes(contract')
                 /\ hashes(contract')[k] =
                        <<"V1", BalancesV1(hashes(contract)[k][2].deposited,
                                           hashes(contract)[k][2].total, 0)>>]_vars

\* C2: at-most-once upgrade: once a get_balance(k) has upgraded the record under
\* k, every later get_balance(k) with no add_hash(k) in between finds
\* need_upgrade() false on the stored record.
C2_AtMostOnceUpgrade ==
    [][\A k \in Keys :
          (op' = <<"get_balance", k>> /\ k \in upgraded /\ k \in DOMAIN hashes(contract))
              => ~need_upgrade(hashes(contract)[k])]_vars

C4_RootUpgradePreservesCollections ==
    [][(contract[1] = "V0" /\ op'[1] = "deposit" /\ contract'[1] = "V1")
          => /\ hashes(contract') = hashes(contract)
             /\ DOMAIN funders(contract') = DOMAIN funders(contract) \cup {op'[2]}
             /\ \A x \in Accounts \ {op'[2]} :
                    get_deposit(contract', x) = get_deposit(contract, x)]_vars

\* C4 witness: the upgrading deposit has happened on a root that held a record
\* and another account's funders entry.
C4_Witness ==
    /\ Completed("deposit")
    /\ ndeposits = 1
    /\ hashes(contract) # EmptyMap
    /\ \E x \in Accounts \ {op[2]} : x \in DOMAIN funders(contract)

\* C5: funder accumulation: get_deposit(X) is X's initial balance plus the sum of
\* the amounts X deposited, and is None iff X has no funders entry.
C5_FunderAccumulation ==
    \A x \in Accounts :
        /\ get_deposit(contract, x) = Get(expected, x)
        /\ get_deposit(contract, x) = <<"None">> <=> x \notin DOMAIN funders(contract)

\* C6: get_nonce() never decreases, every completed deposit raises it by exactly
\* 1, no other call changes it, and it equals the number of completed deposits
\* (every initial root reads nonce 0).
C6_NonceCountsDeposits ==
    [][/\ get_nonce(contract') >= get_nonce(contract)
       /\ IF op'[1] = "deposit" /\ ret'[1] = "ok"
          THEN get_nonce(contract') = get_nonce(contract) + 1
          ELSE get_nonce(contract') = get_nonce(contract)
       /\ get_nonce(contract') = ndeposits']_vars

C8_IntoLatestTotal ==
    op[1] = "VersionedBalances::get_balance"
        => ret = Ok(CASE op[2][1] = "V0" ->
                            BalancesV1(op[2][2].deposited, op[2][2].total, 0)
                      [] op[2][1] = "V1" -> op[2][2])

\* C9: get_balance(k) with k absent fails with ERR_INVALID_KEY and leaves the
\* whole root unchanged; with k present it never fails.
C9_NotFoundNoEffect ==
    [][\A k \in Keys :
          op' = <<"get_balance", k>>
              => IF k \in DOMAIN hashes(contract)
                 THEN ret'[1] = "ok"
                 ELSE ret' = Panic("ERR_INVALID_KEY") /\ contract' = contract]_vars

\* C9 witness: a lookup of an absent key has failed on a root that holds a
\* record under another key.
C9_Witness ==
    /\ op[1] = "get_balance"
    /\ ret = Panic("ERR_INVALID_KEY")
    /\ op[2] \notin DOMAIN hashes(contract)
    /\ hashes(contract) # EmptyMap

\* C10: add_hash(k) on a root tagged V1 aborts and leaves the whole root
\* unchanged; on a root tagged V0 it always succeeds.
C10_RegisterPrecondition ==
    [][\A k \in Keys :
          op' = <<"add_hash", k>>
              => IF contract[1] = "V1"
                 THEN ret'[1] = "panic" /\ contract' = contract
                 ELSE ret' = Ok(Unit)]_vars

\* C10 witness: add_hash has aborted on a V1 root that holds funders and records.
C10_Witness ==
    /\ op[1] = "add_hash"
    /\ ret[1] = "panic"
    /\ contract[1] = "V1"
    /\ funders(contract) # EmptyMap
    /\ hashes(contract) # EmptyMap

\* C11: get_nonce() and get_deposit() leave the whole root unchanged,
\* get_balance() leaves the root's variant, funders and nonce unchanged, and a
\* root tagged V0 is still tagged V0 after any of get_nonce, get_deposit,
\* get_balance and add_hash.
C11_ReadsNeverUpgradeRoot ==
    [][/\ op'[1] \in {"get_nonce", "get_deposit"} => contract' = contract
       /\ op'[1] = "get_balance"
              => /\ contract'[1] = contract[1]
                 /\ funders(contract') = funders(contract)
                 /\ contract[1] = "V1" => contract'[2].nonce = contract[2].nonce
       /\ (op'[1] \in {"get_nonce", "get_deposit", "get_balance", "add_hash"}
               /\ contract[1] = "V0")
              => contract'[1] = "V0"]_vars

\* C11 witness: a get_balance has returned a record's value on a root that is
\* tagged V0.
C11_Witness ==
    /\ Completed("get_balance")
    /\ contract[1] = "V0"
    /\ funders(contract) # EmptyMap

\* C12: upgrade is idempotent: upgrading an upgraded value changes nothing of
\* its latest-shape projection, and upgrade of a V1 value returns an equal V1
\* value, earned included.
C12_UpgradeIdempotent ==
    [][op'[1] = "upgrade"
          => /\ op'[2][1] = "V1" => ret'[2] = op'[2]
             /\ op[1] = "upgrade"
                    => VersionedBalances_get_balance(ret'[2])
                           = VersionedBalances_get_balance(ret[2])]_vars

\* C12 witness: upgrade has been applied to a V1 value whose earned is not 0.
C12_Witness ==
    /\ op[1] = "upgrade"
    /\ op[2][1] = "V1"
    /\ op[2][2].earned > 0
    /\ ret = Ok(versioned)

\* C13: upgrade of a V0 value {d, t} is the V1 value {d, t, earned: 0};
\* need_upgrade() is true exactly on V0 values, so false on that result.
C13_FieldPreservation ==
    /\ (op[1] = "upgrade" /\ op[2][1] = "V0")
           => ret = Ok(<<"V1", BalancesV1(op[2][2].deposited, op[2][2].total, 0)>>)
    /\ op[1] = "need_upgrade" => ret = Ok(op[2][1] = "V0")

\* C13 witness: upgrade has been applied to a V0 value whose two fields differ.
C13_Witness ==
    /\ op[1] = "upgrade"
    /\ op[2][1] = "V0"
    /\ op[2][2].deposited # op[2][2].total
    /\ versioned[1] = "V1"

\* C14: the root tag is forward-only and the root upgrade runs at most once:
\* a root tagged V1 is never tagged V0 again, the root is tagged V1 after every
\* completed deposit, and on a root already tagged V1 contract_mut is a no-op:
\* the deposit counts on from the stored nonce instead of from 0 and keeps the
\* records and the other accounts' funders entries.
C14_RootForwardOnly ==
    [][/\ contract[1] = "V1" => contract'[1] = "V1"
       /\ (op'[1] = "deposit" /\ ret'[1] = "ok") => contract'[1] = "V1"
       /\ (op'[1] = "deposit" /\ ret'[1] = "ok" /\ contract[1] = "V1")
              => /\ contract_mut(contract) = contract
                 /\ contract'[2].nonce = (contract[2].nonce + 1) % (MaxNonce + 1)
                 /\ hashes(contract') = hashes(contract)
                 /\ op'[2] \in DOMAIN funders(contract')
                 /\ \A x \in DOMAIN funders(contract) \ {op'[2]} :
                        get_deposit(contract', x) = get_deposit(contract, x)]_vars

\* C14 witness: a second deposit has completed, so on a root that was V1
\* already, and the nonce reads 2 with the records and two funders in place.
C14_Witness ==
    /\ Completed("deposit")
    /\ ndeposits = 2
    /\ get_nonce(contract) = 2
    /\ hashes(contract) # EmptyMap
    /\ DOMAIN funders(contract) = Accounts

\* C15: after add_hash(k) on a root tagged V0 the record stored under k is
\* V0 {deposited: 1, total: 1}, the root is still tagged V0, funders is
\* unchanged, get_nonce() is still 0 and every record under another key is
\* unchanged.
C15_RegisterEffect ==
    [][\A k \in Keys :
          (op' = <<"add_hash", k>> /\ contract[1] = "V0")
              => /\ Get(hashes(contract'), k) = <<"Some", <<"V0", Balances(1, 1)>>>>
                 /\ contract'[1] = "V0"
                 /\ funders(contract') = funders(contract)
                 /\ get_nonce(contract') = 0
                 /\ \A j \in Keys \ {k} :
                        Get(hashes(contract'), j) = Get(hashes(contract), j)]_vars

\* C15 witness: add_hash has completed on a root that holds a record under
\* another key, of another value, and a funders entry.
C15_Witness ==
    /\ Completed("add_hash")
    /\ \E j \in DOMAIN hashes(contract) \ {op[2]} :
           hashes(contract)[j] # <<"V0", Balances(1, 1)>>
    /\ funders(contract) # EmptyMap

\* C16: for every key registered with add_hash, get_balance(key) returns
\* {deposited: 1, total: 1, earned: 0}, before and after any number of deposits
\* (the one that upgrades the root included) and however often it is called.
C16_RecordsReadableAcrossUpgrade ==
    \A k \in registered :
        op = <<"get_balance", k>> => ret = Ok(BalancesV1(1, 1, 0))

\* C16 witness: a registered key has been read on the root after the deposit
\* that upgraded the root and one more.
C16_Witness ==
    /\ Completed("get_balance")
    /\ op[2] \in registered
    /\ contract[1] = "V1"
    /\ ndeposits = 2

\* C17: deposit has no error path: every deposit completes, the account's
\* stored balance is its previous balance plus the amount, exactly, and the
\* nonce is the previous nonce plus 1, exactly.
C17_DepositNoErrorPath ==
    [][op'[1] = "deposit"
          => /\ ret' = Ok(Unit)
             /\ get_deposit(contract', op'[2])
                    = <<"Some", OrDefault(funders(contract), op'[2]) + op'[3]>>
             /\ get_nonce(contract') = get_nonce(contract) + 1]_vars

\* C18: starting from the default root, records is empty in every reachable
\* state: every add_hash aborts and every get_balance fails with
\* ERR_INVALID_KEY.
C18_DefaultRootHasNoRecords ==
    /\ hashes(contract) = EmptyMap
    /\ op[1] = "add_hash" => ret[1] = "panic"
    /\ op[1] = "get_balance" => ret = Panic("ERR_INVALID_KEY")

\* C18 witness: add_hash has aborted on the default root after deposits.
C18_Witness ==
    /\ op[1] = "add_hash"
    /\ ret[1] = "panic"
    /\ ndeposits = 2
    /\ hashes(contract) = EmptyMap

\* C19: a completed deposit of 0 by an account with no funders entry creates
\* the entry with balance 0, raises the nonce by 1 and leaves the root tagged
\* V1; no funders entry is ever removed and no balance ever decreases.
C19_ZeroDepositAndNoDecrease ==
    [][/\ \A a \in Accounts :
              (op' = <<"deposit", a, 0>> /\ ret'[1] = "ok"
                   /\ a \notin DOMAIN funders(contract))
                  => /\ get_deposit(contract', a) = <<"Some", 0>>
                     /\ get_nonce(contract') = get_nonce(contract) + 1
                     /\ contract'[1] = "V1"
       /\ \A x \in DOMAIN funders(contract) :
              /\ x \in DOMAIN funders(contract')
              /\ funders(contract')[x] >= funders(contract)[x]]_vars

====
